---- MODULE Spec2Model ----
(***************************************************************************)
(* A model of commerce-seed-catalog: the path resolver, the admin URL      *)
(* builder, the catalog lookup, the bulk-job gateway and the orchestrators *)
(* (list mode, bulk seed, per-product seed).                               *)
(*                                                                         *)
(* Strings the code manipulates character by character (path patterns,     *)
(* skus, url keys, url segments) are sequences of one-character strings.   *)
(* An absent (undefined) string is the one-element sequence Undefined,     *)
(* whose element is no character.                                          *)
(***************************************************************************)
EXTENDS Integers, Sequences, FiniteSets, TLC

VARIABLES
    \* ---- getPreviewPublishPaths (src/src/utils/admin.js)
    confMap,              \* Object.entries(config.confMap): <<[key, storeCode, storeViewCode]>>
    envStoreCode,         \* process.env.MAGENTO_STORE_CODE
    envStoreViewCode,     \* process.env.MAGENTO_STORE_VIEW_CODE
    sku,                  \* argument sku
    urlKey,               \* argument urlKey
    previewPublishPaths,  \* the returned array
    pathsPc,              \* "call" before the call, "done" after
    \* ---- createAdminUrl (src/src/utils/admin.js)
    config,               \* [org, site, ref, adminVersion]
    api,                  \* argument api
    path,                 \* argument path
    searchParams,         \* the URLSearchParams object passed: <<[key, value]>>
    adminUrl,             \* the URL returned by the last call: [pathname, searchParams]
    urlCalls,             \* calls made with these arguments
    \* ---- fetchCatalogProduct (src/src/queries/catalog.js)
    catalogResponse,      \* what fetch answers: [rejects, ok, body]
    catalogOutcome,       \* how the call ended: [kind, value] or [kind, message]
    catalogPc,            \* "call" before the call, "done" after
    \* ---- the catalog server and the page loop (src/unnamed/part_000, src/src/index.js)
    catalogSize,          \* the number of products of the catalog: products 1..catalogSize
    serverPageCap,        \* the largest page the server serves
    arg,                  \* process.argv[2]: "list" or "seed"
    helixApiKey,          \* process.env.HELIX_ADMIN_API_KEY is set
    pc,                   \* where the run stands
    currentPage,          \* let currentPage
    totalPages,           \* let totalPages
    results,              \* const results: the accumulated products
    pageRequests,         \* the page requests sent: <<[pageSize, currentPage]>>
    now,                  \* the timers' clock, in ms
    \* ---- the bulk pipeline (src/unnamed/part_000, src/src/utils/admin.js)
    productList,          \* const productList: the paths of the preview job
    jobApi,               \* createBulkJob's api of the call under way
    jobName,              \* createBulkJob's jobName
    resp,                 \* pollBulkJob's resp: the last job details read
    adminCalls,           \* the bulk POSTs and job GETs sent, with their answers
    previewJob,           \* const previewJob
    liveJob,              \* const liveJob
    files,                \* the files written by writeResults: <<[name, content]>>
    error,                \* the error the run ended with: [thrown, wrapped, cause]
    \* ---- the per-product pipeline (src/src/index.js)
    productsData,         \* const productsData: the page under way
    products,             \* const products: the products of the page under way
    productIndex,         \* the position of the for loop in products
    batchRequests,        \* const batchRequests: the products whose pipeline was pushed
    batches,              \* the batches registered: <<[page, products, requests, reconciled]>>
    promises,             \* per product: "none", "skipped", "pending", "fulfilled", "rejected"
    previewErrors,        \* const previewErrors: <<[reason, product]>>
    catalogErrors,        \* const catalogErrors: <<[error, product]>>
    events,               \* page requests, failed pages, launches: <<[kind, page, product, time]>>
    \* ---- callPreviewPublish (src/src/utils/admin.js)
    shouldPublish,        \* argument shouldPublish
    purgePaths,           \* const purgePaths
    pathIndex,            \* the position of the for loop in purgePaths
    operations,           \* const operations: what callAdminWithOp returned for the path
    publishCalls,         \* the admin calls sent: <<[op, path, response]>>
    result,               \* result.paths: <<[path, ops]>> in key order
    publishError,         \* the message of the error the call rejected with
    publishPc             \* "call", "await", "fulfilled" or "rejected"

pathVars == <<confMap, envStoreCode, envStoreViewCode, sku, urlKey,
              previewPublishPaths, pathsPc>>

urlVars == <<config, api, path, searchParams, adminUrl, urlCalls>>

catalogVars == <<catalogResponse, catalogOutcome, catalogPc>>

pageVars == <<catalogSize, serverPageCap, arg, helixApiKey, pc, currentPage, totalPages,
              results, pageRequests, now>>

bulkVars == <<productList, jobApi, jobName, resp, adminCalls, previewJob, liveJob,
              files, error>>

seedVars == <<productsData, products, productIndex, batchRequests, batches, promises,
              previewErrors, catalogErrors, events>>

publishVars == <<shouldPublish, purgePaths, pathIndex, operations, publishCalls, result,
                 publishError, publishPc>>

vars == <<pathVars, urlVars, catalogVars, pageVars, bulkVars, seedVars, publishVars>>

-----------------------------------------------------------------------------
(* Bounds of the model. *)

\* the largest number of confMap entries of a site config
MaxPatterns == 2

\* the largest number of createAdminUrl calls made with one set of arguments
MaxUrlCalls == 2

\* the largest number of products in a catalog lookup's response
MaxMatches == 2

\* the largest catalog
MaxItems == 3

\* the largest number of job details requests of one bulk job
MaxPolls == 3

\* the largest catalog of a per-product seed run
MaxSeedItems == 6

\* the largest number of job details requests of a call of pollBulkJob
\* followed on its own
MaxPollGets == 6

-----------------------------------------------------------------------------
(* JavaScript values and strings. *)

\* undefined, as a string-valued slot
Undefined == <<"undefined">>

\* null (a JSON null of the config), as a string-valued slot
Null == <<"null">>

\* an absent store code (a missing property or an unset environment variable)
Absent == "undefined"

\* JavaScript truthiness of a string-or-undefined value
Truthy(s) == s # Undefined /\ s # Null /\ s # <<>>

\* s[from..to] as a sequence
Slice(s, from, to) == [i \in 1..(to - from + 1) |-> s[from + i - 1]]

\* sub occurs in s at position i
OccursAt(sub, s, i) ==
    /\ i >= 1
    /\ i + Len(sub) - 1 <= Len(s)
    /\ \A k \in 1..Len(sub) : s[i + k - 1] = sub[k]

\* String.prototype.indexOf, 1-based; 0 when sub does not occur
IndexOf(sub, s) ==
    IF \E i \in 1..(Len(s) + 1) : OccursAt(sub, s, i)
    THEN CHOOSE i \in 1..(Len(s) + 1) :
            /\ OccursAt(sub, s, i)
            /\ \A j \in 1..(i - 1) : ~OccursAt(sub, s, j)
    ELSE 0

\* String.prototype.includes
Includes(s, sub) == IndexOf(sub, s) # 0

\* GetSubstitution of String.prototype.replace for a string pattern (no
\* captures): in the replacement, $$ is "$", $& is the matched text and $'
\* the text after the match; any other "$" stays. (The model's strings do
\* not use the grave accent, whose "$" form inserts the text before the
\* match.)
RECURSIVE GetSubstitution(_, _, _, _)
GetSubstitution(matched, before, after, repl) ==
    IF repl = <<>> THEN <<>>
    ELSE IF Head(repl) = "$" /\ Len(repl) >= 2
    THEN LET c == repl[2]
             rest == GetSubstitution(matched, before, after, Tail(Tail(repl)))
         IN  CASE c = "$" -> <<"$">> \o rest
               [] c = "&" -> matched \o rest
               [] c = "'" -> after \o rest
               [] OTHER   -> <<"$">> \o GetSubstitution(matched, before, after, Tail(repl))
    ELSE <<Head(repl)>> \o GetSubstitution(matched, before, after, Tail(repl))

\* String.prototype.replace(pattern, replacement) with a string pattern:
\* the first occurrence only
Replace(s, pat, repl) ==
    LET i == IndexOf(pat, s)
    IN  IF i = 0 THEN s
        ELSE LET before == Slice(s, 1, i - 1)
                 after  == Slice(s, i + Len(pat), Len(s))
             IN  before \o GetSubstitution(pat, before, after, repl) \o after

\* Array.prototype.filter is SelectSeq; Array.prototype.map is written as
\* [i \in 1..Len(seq) |-> F(seq[i])].

-----------------------------------------------------------------------------
(* getPreviewPublishPaths *)

SKU_PLACEHOLDER == <<"{", "{", "s", "k", "u", "}", "}">>
URLKEY_PLACEHOLDER == <<"{", "{", "u", "r", "l", "k", "e", "y", "}", "}">>

BASE_KEY == <<"b", "a", "s", "e">>

\* a resolver that forgets to set the base entry aside
OtherPatternsKeepBase(cm) == cm

\* const { base: _ = undefined, ...otherPatterns } = config.confMap
OtherPatterns(cm) == SelectSeq(cm, LAMBDA e : e.key # BASE_KEY)

\* the reduce callback's condition (strict equality; two absent sides are equal)
MatchesStoreView(matchConf, store, view) ==
    /\ store = matchConf.storeCode
    /\ view = matchConf.storeViewCode

\* the patterns pushed by the reduce
MatchedPathPatterns(cm, store, view) ==
    LET matched == SelectSeq(OtherPatterns(cm),
                             LAMBDA e : MatchesStoreView(e, store, view))
    IN  [i \in 1..Len(matched) |-> matched[i].key]

\* the map callback
Substitute(pattern, s, u) ==
    LET p1 == IF Truthy(s) THEN Replace(pattern, SKU_PLACEHOLDER, s) ELSE pattern
    IN  IF Truthy(u) THEN Replace(p1, URLKEY_PLACEHOLDER, u) ELSE p1

\* the filter callback
NoPlaceholder(pattern) ==
    /\ ~Includes(pattern, SKU_PLACEHOLDER)
    /\ ~Includes(pattern, URLKEY_PLACEHOLDER)

getPreviewPublishPaths(cm, store, view, s, u) ==
    LET matched == MatchedPathPatterns(cm, store, view)
        mapped == [i \in 1..Len(matched) |-> Substitute(matched[i], s, u)]
    IN  SelectSeq(mapped, NoPlaceholder)

\* ---- the inputs the model draws

PatternKeys == {
    BASE_KEY,
    <<"/", "p", "/">> \o URLKEY_PLACEHOLDER,
    <<"/", "s", "/">> \o SKU_PLACEHOLDER,
    <<"/">> \o SKU_PLACEHOLDER \o <<"/">> \o URLKEY_PLACEHOLDER,
    <<"/">> \o SKU_PLACEHOLDER \o SKU_PLACEHOLDER }

MatchConfs == {
    [storeCode |-> "main", storeViewCode |-> "default"],
    [storeCode |-> "other", storeViewCode |-> "default"],
    [storeCode |-> "main", storeViewCode |-> Absent],
    [storeCode |-> Absent, storeViewCode |-> Absent] }

ConfEntries == { [key |-> k, storeCode |-> m.storeCode, storeViewCode |-> m.storeViewCode] :
                    k \in PatternKeys, m \in MatchConfs }

\* the entry lists of objects: no key twice
ConfMaps == UNION { { cm \in [1..n -> ConfEntries] :
                        \A i, j \in 1..n : i # j => cm[i].key # cm[j].key } :
                    n \in 0..MaxPatterns }

Skus == { Undefined, <<>>, <<"A", "B">>, <<"$", "&">>, URLKEY_PLACEHOLDER }
UrlKeys == { Undefined, <<>>, <<"k">> }

PathsIdle ==
    /\ confMap = <<>>
    /\ envStoreCode = Absent
    /\ envStoreViewCode = Absent
    /\ sku = Undefined
    /\ urlKey = Undefined
    /\ previewPublishPaths = <<>>
    /\ pathsPc = "idle"

PathsInit ==
    /\ confMap \in ConfMaps
    /\ envStoreCode \in {Absent, "main"}
    /\ envStoreViewCode \in {Absent, "default"}
    /\ sku \in Skus
    /\ urlKey \in UrlKeys
    /\ previewPublishPaths = <<>>
    /\ pathsPc = "call"

GetPreviewPublishPaths ==
    /\ pathsPc = "call"
    /\ previewPublishPaths' =
          getPreviewPublishPaths(confMap, envStoreCode, envStoreViewCode, sku, urlKey)
    /\ pathsPc' = "done"
    /\ UNCHANGED <<confMap, envStoreCode, envStoreViewCode, sku, urlKey>>
    /\ UNCHANGED <<urlVars, catalogVars, pageVars, bulkVars, seedVars, publishVars>>

PathsNext == GetPreviewPublishPaths

-----------------------------------------------------------------------------
(* createAdminUrl *)

\* the path percent-encode set of the URL standard, on the characters the
\* model's strings use; "?" and "#" are encoded by the pathname setter too
PercentEncodeChar(c) ==
    CASE c = " " -> <<"%", "2", "0">>
      [] c = "?" -> <<"%", "3", "F">>
      [] c = "#" -> <<"%", "2", "3">>
      [] c = "{" -> <<"%", "7", "B">>
      [] c = "}" -> <<"%", "7", "D">>
      [] OTHER   -> <<c>>

RECURSIVE PercentEncode(_)
PercentEncode(seg) ==
    IF seg = <<>> THEN <<>>
    ELSE PercentEncodeChar(Head(seg)) \o PercentEncode(Tail(seg))

\* the segments of a string, split at "/" (the text before the first "/"
\* included)
RECURSIVE SplitSlash(_, _)
SplitSlash(s, cur) ==
    IF s = <<>> THEN <<cur>>
    ELSE IF Head(s) = "/" THEN <<cur>> \o SplitSlash(Tail(s), <<>>)
    ELSE SplitSlash(Tail(s), Append(cur, Head(s)))

\* the URL parser's path state: ".." removes the last segment, "." is
\* skipped, both leave an empty segment when they end the path; every
\* other segment is appended percent-encoded
RECURSIVE PathState(_, _)
PathState(segs, acc) ==
    IF segs = <<>> THEN acc
    ELSE LET seg == Head(segs)
             last == Len(segs) = 1
             popped == IF acc = <<>> THEN <<>> ELSE SubSeq(acc, 1, Len(acc) - 1)
         IN  CASE seg = <<".", ".">> ->
                    PathState(Tail(segs), IF last THEN Append(popped, <<>>) ELSE popped)
               [] seg = <<".">> ->
                    PathState(Tail(segs), IF last THEN Append(acc, <<>>) ELSE acc)
               [] OTHER ->
                    PathState(Tail(segs), Append(acc, PercentEncode(seg)))

RECURSIVE JoinSlash(_)
JoinSlash(segs) ==
    IF segs = <<>> THEN <<>>
    ELSE <<"/">> \o Head(segs) \o JoinSlash(Tail(segs))

\* the pathname setter of URL, for a value that starts with "/"
SetPathname(value) == JoinSlash(PathState(SplitSlash(Tail(value), <<>>), <<>>))

HLX_ADMIN_VERSION == <<"h", "l", "x", "-", "a", "d", "m", "i", "n", "-",
                       "v", "e", "r", "s", "i", "o", "n">>

\* a builder without the default of ref
RefNoDefault(ref) == ref

\* the default value of the destructured parameter: ref = 'main'
RefOrMain(ref) == IF ref = Undefined THEN <<"m", "a", "i", "n">> ELSE ref

\* if (org && site && ref)
HasOrgSiteRef(cfg) == Truthy(cfg.org) /\ Truthy(cfg.site) /\ Truthy(RefOrMain(cfg.ref))

\* the pathname of the returned URL
AdminPathname(cfg, a, p) ==
    LET p0 == SetPathname(<<"/">> \o a)
        p1 == IF HasOrgSiteRef(cfg)
              THEN SetPathname(p0 \o <<"/">> \o cfg.org \o <<"/">> \o cfg.site
                                    \o <<"/">> \o RefOrMain(cfg.ref))
              ELSE p0
    IN  SetPathname(p1 \o p)

\* the URLSearchParams object after the call: the version tag is appended to it
ParamsAfter(cfg, sp) ==
    IF Truthy(cfg.adminVersion)
    THEN Append(sp, [key |-> HLX_ADMIN_VERSION, value |-> cfg.adminVersion])
    ELSE sp

createAdminUrl(cfg, a, p, sp) ==
    [pathname |-> AdminPathname(cfg, a, p), searchParams |-> ParamsAfter(cfg, sp)]

\* ---- the inputs the model draws

Orgs == { Undefined, <<>>, <<"a", "c">>, <<"a", " ", "b">>, <<".", ".">> }
Sites == { Undefined, <<>>, <<"s">> }
Refs == { Undefined, Null, <<>>, <<"d", "e", "v">> }
AdminVersions == { Undefined, <<"c", "i">> }
Apis == { <<"p", "r", "e", "v", "i", "e", "w">>, <<"l", "i", "v", "e">>, <<"j", "o", "b">> }
ResourcePaths == { <<>>, <<"/", "*">>, <<"/", "p", "/", "k">> }
SearchParamsIn == { <<>>, <<[key |-> <<"a">>, value |-> <<"1">>]>> }

NoUrl == [pathname |-> <<>>, searchParams |-> <<>>]

UrlIdle ==
    /\ config = [org |-> Undefined, site |-> Undefined, ref |-> Undefined,
                 adminVersion |-> Undefined]
    /\ api = <<>>
    /\ path = <<>>
    /\ searchParams = <<>>
    /\ adminUrl = NoUrl
    /\ urlCalls = 0

UrlInit ==
    /\ config \in [org : Orgs, site : Sites, ref : Refs, adminVersion : AdminVersions]
    /\ api \in Apis
    /\ path \in ResourcePaths
    /\ searchParams \in SearchParamsIn
    /\ adminUrl = NoUrl
    /\ urlCalls = 0

CreateAdminUrl ==
    /\ urlCalls < MaxUrlCalls
    /\ adminUrl' = createAdminUrl(config, api, path, searchParams)
    /\ searchParams' = ParamsAfter(config, searchParams)
    /\ urlCalls' = urlCalls + 1
    /\ UNCHANGED <<config, api, path>>
    /\ UNCHANGED <<pathVars, catalogVars, pageVars, bulkVars, seedVars, publishVars>>

UrlNext == CreateAdminUrl

-----------------------------------------------------------------------------
(* fetchCatalogProduct *)

\* A response body is [shape, data, products, items, errors]: shape is
\* "malformed" (not JSON), "null" (the JSON null) or "object"; data is
\* "absent", "null" or "object"; products is "absent" or "array", with the
\* array's elements (product records and nulls) in items.

NoProduct == [id |-> "null", sku |-> "null"]
CatalogProducts == { [id |-> "1", sku |-> "AB"], [id |-> "2", sku |-> "CD"], NoProduct }
ProductArrays == UNION { [1..n -> CatalogProducts] : n \in 0..MaxMatches }

\* json?.data?.products ?? []
ProductsOf(body) ==
    IF body.shape = "object" /\ body.data = "object" /\ body.products = "array"
    THEN body.items
    ELSE <<>>

\* the catch clause: throw new Error(`failed to parse product response: ${e.message}`)
ParseFailure(message) ==
    [kind |-> "throw", value |-> NoProduct,
     message |-> <<"failed to parse product response: ">> \o message]

\* the body of the try block, whatever it throws caught by the catch clause
ParseProduct(body) ==
    IF body.shape = "malformed"
    THEN ParseFailure(<<"Unexpected token">>)           \* resp.json() throws
    ELSE LET matches == ProductsOf(body)
             productData == IF matches = <<>> THEN NoProduct ELSE matches[1]
         IN  IF productData # NoProduct
             THEN [kind |-> "return", value |-> productData, message |-> <<>>]
             ELSE IF body.shape = "null"
             THEN ParseFailure(<<"Cannot read properties of null">>)   \* json.errors
             ELSE ParseFailure(<<"could not find product: ", body.errors>>)

fetchCatalogProduct(response) ==
    IF response.rejects
    THEN [kind |-> "throw", value |-> NoProduct, message |-> <<"fetch failed">>]
    ELSE IF ~response.ok
    THEN [kind |-> "throw", value |-> NoProduct, message |-> <<"failed to fetch product: ">>]
    ELSE ParseProduct(response.body)

\* ---- the inputs the model draws

NoBody == [shape |-> "malformed", data |-> "absent", products |-> "absent",
           items |-> <<>>, errors |-> "undefined"]

CatalogBodies ==
    { NoBody, [NoBody EXCEPT !.shape = "null"] }
    \cup { [shape |-> "object", data |-> d, products |-> "absent", items |-> <<>>,
            errors |-> e] : d \in {"absent", "null", "object"}, e \in {"undefined", "errors"} }
    \cup { [shape |-> "object", data |-> "object", products |-> "array", items |-> a,
            errors |-> e] : a \in ProductArrays, e \in {"undefined", "errors"} }

CatalogResponses ==
    [rejects : {FALSE}, ok : BOOLEAN, body : CatalogBodies]
    \cup {[rejects |-> TRUE, ok |-> FALSE, body |-> NoBody]}

NoOutcome == [kind |-> "none", value |-> NoProduct, message |-> <<>>]

CatalogIdle ==
    /\ catalogResponse = [rejects |-> TRUE, ok |-> FALSE, body |-> NoBody]
    /\ catalogOutcome = NoOutcome
    /\ catalogPc = "idle"

CatalogInit ==
    /\ catalogResponse \in CatalogResponses
    /\ catalogOutcome = NoOutcome
    /\ catalogPc = "call"

FetchCatalogProduct ==
    /\ catalogPc = "call"
    /\ catalogOutcome' = fetchCatalogProduct(catalogResponse)
    /\ catalogPc' = "done"
    /\ UNCHANGED catalogResponse
    /\ UNCHANGED <<pathVars, urlVars, pageVars, bulkVars, seedVars, publishVars>>

CatalogNext == FetchCatalogProduct

-----------------------------------------------------------------------------
(* The catalog server and fetchProductBatch. *)

Min(a, b) == IF a < b THEN a ELSE b

DigitChar(i) == <<"1", "2", "3", "4", "5", "6", "7", "8", "9">>[i]

\* product i of the catalog; product 2 has no url key
Product(i) ==
    [sku |-> <<"S", DigitChar(i)>>,
     urlKey |-> IF i = 2 THEN Undefined ELSE <<"k", DigitChar(i)>>]

\* the server serves full pages of at most serverPageCap products
EffectivePageSize(pageSize, cap) == Min(pageSize, cap)

TotalPagesOf(n, size) == (n + size - 1) \div size

\* the products of page k
PageItems(n, size, k) ==
    LET first == (k - 1) * size + 1
        last == Min(k * size, n)
    IN  [i \in 1..(IF last >= first THEN last - first + 1 ELSE 0) |-> first + i - 1]

FetchOutcomes == {"ok", "not_ok", "errors", "throws"}

\* fetchProductBatch: null on a non-2xx status, a GraphQL errors payload or
\* a thrown error; the page's items and page_info otherwise
fetchProductBatch(outcome, n, cap, pageSize, page) ==
    IF outcome # "ok"
    THEN [null |-> TRUE, items |-> <<>>, total_pages |-> 0]
    ELSE LET size == EffectivePageSize(pageSize, cap)
         IN  [null |-> FALSE, items |-> PageItems(n, size, page),
              total_pages |-> TotalPagesOf(n, size)]

-----------------------------------------------------------------------------
(* listAllProducts and the bulk seedAllProducts (part_000), createBulkJob *)
(* and pollBulkJob (admin.js).                                            *)

LIST_PAGE_SIZE == 500
POLL_DELAY_MS == 1000
SHOULD_PUBLISH == TRUE

NoError == [thrown |-> FALSE, wrapped |-> FALSE, cause |-> "none", from |-> "none"]
NoJob == [state |-> "none", hasData |-> FALSE, resources |-> <<>>]

\* a catch clause that swallows the error
BulkJobErrorSwallowed(cause) ==
    [thrown |-> FALSE, wrapped |-> FALSE, cause |-> "none", from |-> "none"]

\* throw new Error(`Bulk job failed: ${err}`)
BulkJobError(cause) ==
    [thrown |-> TRUE, wrapped |-> TRUE, cause |-> cause, from |-> "createBulkJob"]

\* an error that leaves the function it was thrown in as it is
RawError(cause, from) == [thrown |-> TRUE, wrapped |-> FALSE, cause |-> cause, from |-> from]

\* a poll loop that never sees its job done
PollDoneNever(details) == FALSE

\* a poll loop that ends on the first job details read
PollDoneAtOnce(details) == details.state # "none"

\* if (resp.state === 'stopped') done = true
PollDone(details) == details.state = "stopped"

\* a poll of the job kind named as the api
JobKindOfApi(a) == a

\* api === 'live' ? 'publish' : api
JobKind(a) == IF a = "live" THEN "publish" ELSE a

\* a call of the admin API: the bulk POST with its body { forceUpdate: true,
\* paths }, or the GET of the details of job name
AdminCall(op, a, name, paths, time) ==
    [op |-> op, api |-> a, name |-> name, forceUpdate |-> (op = "POST"), paths |-> paths,
     time |-> time, answer |-> "pending", details |-> NoJob]

\* the calls sent, the last one answered
Answered(calls, answer) == [calls EXCEPT ![Len(calls)].answer = answer]

\* the calls sent, the last one answered with job details
AnsweredDetails(calls, details) ==
    [calls EXCEPT ![Len(calls)].answer = details.state, ![Len(calls)].details = details]

\* the job GETs sent since the last bulk POST
PollsOfJob(calls) ==
    LET posts == { i \in 1..Len(calls) : calls[i].op = "POST" }
        lastPost == CHOOSE i \in posts : \A j \in posts : j <= i
    IN  Len(calls) - lastPost

\* a path list built of the last path of every product
LastPath(cm, store, view, i) ==
    LET paths == getPreviewPublishPaths(cm, store, view, Product(i).sku, Product(i).urlKey)
    IN  IF paths = <<>> THEN Undefined ELSE paths[Len(paths)]

\* getPreviewPublishPaths(siteConfig, product.sku, product.urlKey)[0]
FirstPath(cm, store, view, i) ==
    LET paths == getPreviewPublishPaths(cm, store, view, Product(i).sku, Product(i).urlKey)
    IN  IF paths = <<>> THEN Undefined ELSE paths[1]

\* path !== undefined && path.startsWith('/')
IsPath(p) == p # Undefined /\ p # <<>> /\ p[1] = "/"

\* allProducts.map(...).filter(...)
ProductListOf(cm, store, view, allProducts) ==
    SelectSeq([i \in 1..Len(allProducts) |-> FirstPath(cm, store, view, allProducts[i])],
              IsPath)

\* previewJob.data.resources.filter((result) => result.status !== 200)
FailedResources(job) == SelectSeq(job.resources, LAMBDA r : r.status # 200)

\* a pipeline that publishes every path of the preview job
AllPaths(job) == [i \in 1..Len(job.resources) |-> job.resources[i].path]

\* ....filter((result) => result.status === 200).map((result) => result.path)
SuccessfulPaths(job) ==
    LET ok == SelectSeq(job.resources, LAMBDA r : r.status = 200)
    IN  [i \in 1..Len(ok) |-> ok[i].path]

PathsOf(resources) == [i \in 1..Len(resources) |-> resources[i].path]

\* writeResults(results, fileName)
Written(fs, name, content) == Append(fs, [name |-> name, content |-> content])

\* the failed and failed-list files, written when something failed
WrittenFailures(fs, stage, job) ==
    IF FailedResources(job) = <<>> THEN fs
    ELSE Written(Written(fs, stage \o "-failed", FailedResources(job)),
                 stage \o "-failed-list", PathsOf(FailedResources(job)))

\* ---- the page loop of listAllProducts

\* a loop that asks for the same page again
SamePage(page) == page

\* currentPage += 1
NextPage(page) == page + 1

\* a loop that keeps its first guess of two pages
KeepTotalPages(data) == 2

\* totalPages = productsData.page_info.total_pages
NextTotalPages(data) == data.total_pages

\* while (currentPage <= totalPages): fetchProductBatch(500, currentPage) is sent
ListFetchPage ==
    /\ pc = "list_loop"
    /\ currentPage <= totalPages
    /\ pageRequests' = Append(pageRequests,
                              [pageSize |-> LIST_PAGE_SIZE, currentPage |-> currentPage])
    /\ pc' = "list_fetch"
    /\ UNCHANGED <<catalogSize, serverPageCap, arg, helixApiKey, currentPage, totalPages,
                   results, now>>
    /\ UNCHANGED <<pathVars, urlVars, catalogVars, bulkVars, seedVars, publishVars>>

\* the page arrives: results.push(...productsData.items), which throws on null
ListPageResponse ==
    /\ pc = "list_fetch"
    /\ \E outcome \in FetchOutcomes :
         LET data == fetchProductBatch(outcome, catalogSize, serverPageCap,
                                       LIST_PAGE_SIZE, currentPage)
         IN  IF data.null
             THEN /\ error' = RawError("TypeError", "listAllProducts")
                  /\ pc' = "failed"
                  /\ UNCHANGED <<results, totalPages, currentPage>>
             ELSE /\ results' = results \o data.items
                  /\ totalPages' = NextTotalPages(data)
                  /\ currentPage' = NextPage(currentPage)
                  /\ pc' = "list_loop"
                  /\ UNCHANGED error
    /\ UNCHANGED <<catalogSize, serverPageCap, arg, helixApiKey, pageRequests, now>>
    /\ UNCHANGED <<productList, jobApi, jobName, resp, adminCalls, previewJob, liveJob, files>>
    /\ UNCHANGED <<pathVars, urlVars, catalogVars, seedVars, publishVars>>

\* createBulkJob(siteConfig, a, paths) is called: the bulk POST is sent
CreateBulkJobCalled(a, paths, time) ==
    /\ adminCalls' = Append(adminCalls, AdminCall("POST", a, "none", paths, time))
    /\ jobApi' = a
    /\ pc' = "job_post"

\* the loop ends: the products are written; seed mode goes on to the preview job
ListDone ==
    /\ pc = "list_loop"
    /\ currentPage > totalPages
    /\ files' = Written(files, "all-products", results)
    /\ IF arg = "list"
       THEN /\ pc' = "done"
            /\ UNCHANGED <<productList, jobApi, adminCalls>>
       ELSE /\ productList' = ProductListOf(confMap, envStoreCode, envStoreViewCode, results)
            /\ CreateBulkJobCalled("preview", productList', now)
    /\ UNCHANGED <<jobName, resp, previewJob, liveJob, error>>
    /\ UNCHANGED <<catalogSize, serverPageCap, arg, helixApiKey, currentPage, totalPages,
                   results, pageRequests, now>>
    /\ UNCHANGED <<pathVars, urlVars, catalogVars, seedVars, publishVars>>

\* ---- the entry point of part_000

\* arg === 'list' ? listAllProducts() : seedAllProducts(), which returns at
\* once when HELIX_ADMIN_API_KEY is not set
BulkStart ==
    /\ pc = "start"
    /\ pc' = IF arg = "seed" /\ ~helixApiKey THEN "done" ELSE "list_loop"
    /\ UNCHANGED <<catalogSize, serverPageCap, arg, helixApiKey, currentPage, totalPages,
                   results, pageRequests, now>>
    /\ UNCHANGED <<pathVars, urlVars, catalogVars, bulkVars, seedVars, publishVars>>

\* ---- createBulkJob and pollBulkJob

JobNames == {"job-a", "job-b"}

\* what the bulk POST can be answered with: fetch rejects, a body that is
\* not JSON, a JSON body without job, or a job name
PostAnswers == {"rejects", "malformed", "no_job"} \cup JobNames

\* the bulk POST is answered. callAdmin is awaited outside the try block:
\* its rejection is not wrapped. response.json() and body.job.name are
\* inside it. With a job name, pollBulkJob sends its first GET.
BulkPostResponse ==
    /\ pc = "job_post"
    /\ \E answer \in PostAnswers :
         CASE answer = "rejects" ->
                /\ error' = RawError("fetch failed", "createBulkJob")
                /\ adminCalls' = Answered(adminCalls, answer)
                /\ pc' = "failed"
                /\ UNCHANGED jobName
           [] answer \in {"malformed", "no_job"} ->
                /\ error' = BulkJobError(answer)
                /\ adminCalls' = Answered(adminCalls, answer)
                /\ pc' = "failed"
                /\ UNCHANGED jobName
           [] OTHER ->
                /\ jobName' = answer
                /\ adminCalls' = Append(Answered(adminCalls, answer),
                                        AdminCall("GET", JobKind(jobApi), answer, <<>>, now))
                /\ pc' = "job_get"
                /\ UNCHANGED error
    /\ UNCHANGED <<productList, jobApi, resp, previewJob, liveJob, files>>
    /\ UNCHANGED <<catalogSize, serverPageCap, arg, helixApiKey, currentPage, totalPages,
                   results, pageRequests, now>>
    /\ UNCHANGED <<pathVars, urlVars, catalogVars, seedVars, publishVars>>

\* the paths of the bulk POST of the job under way
JobPaths(calls) ==
    LET posts == { i \in 1..Len(calls) : calls[i].op = "POST" }
    IN  calls[CHOOSE i \in posts : \A j \in posts : j <= i].paths

\* the job details the server can answer with: a running job, or a stopped
\* one with a status for every path (data may be missing)
JobDetails(paths) ==
    { [state |-> "running", hasData |-> FALSE, resources |-> <<>>],
      [state |-> "stopped", hasData |-> FALSE, resources |-> <<>>] }
    \cup { [state |-> "stopped", hasData |-> TRUE,
            resources |-> [i \in 1..Len(paths) |-> [path |-> paths[i], status |-> st[i]]]] :
           st \in [1..Len(paths) -> {200, 404}] }

\* a job details GET is answered: a rejection, a body that is not JSON or
\* the JSON null make pollBulkJob throw inside createBulkJob's try block;
\* otherwise resp is read and the 1 s timer is set
PollGetResponse ==
    /\ pc = "job_get"
    /\ \/ \E failure \in {"rejects", "malformed", "null"} :
            /\ error' = BulkJobError(failure)
            /\ adminCalls' = Answered(adminCalls, failure)
            /\ pc' = "failed"
            /\ UNCHANGED resp
       \/ \E details \in JobDetails(JobPaths(adminCalls)) :
            /\ resp' = details
            /\ adminCalls' = AnsweredDetails(adminCalls, details)
            /\ pc' = "job_delay"
            /\ UNCHANGED error
    /\ UNCHANGED <<productList, jobApi, jobName, previewJob, liveJob, files>>
    /\ UNCHANGED <<catalogSize, serverPageCap, arg, helixApiKey, currentPage, totalPages,
                   results, pageRequests, now>>
    /\ UNCHANGED <<pathVars, urlVars, catalogVars, seedVars, publishVars>>

\* the preview job is back: it is written, its failures are written, and the
\* live job is created with the paths of status 200
AfterPreviewJob ==
    /\ previewJob' = resp
    /\ IF ~resp.hasData
       THEN /\ files' = Written(files, "bulk-preview-result", resp)
            /\ error' = RawError("TypeError", "seedAllProducts")
            /\ pc' = "failed"
            /\ UNCHANGED <<jobApi, adminCalls>>
       ELSE /\ files' = WrittenFailures(Written(files, "bulk-preview-result", resp),
                                        "bulk-preview", resp)
            /\ UNCHANGED error
            /\ IF SHOULD_PUBLISH
               THEN CreateBulkJobCalled("live", SuccessfulPaths(resp), now + POLL_DELAY_MS)
               ELSE pc' = "done" /\ UNCHANGED <<jobApi, adminCalls>>
    /\ UNCHANGED liveJob

\* the live job is back: it is written, and its failures are written
AfterLiveJob ==
    /\ liveJob' = resp
    /\ IF ~resp.hasData
       THEN /\ files' = Written(files, "bulk-publish-result", resp)
            /\ error' = RawError("TypeError", "seedAllProducts")
            /\ pc' = "failed"
       ELSE /\ files' = WrittenFailures(Written(files, "bulk-publish-result", resp),
                                        "bulk-publish", resp)
            /\ pc' = "done"
            /\ UNCHANGED error
    /\ UNCHANGED <<jobApi, adminCalls, previewJob>>

\* the 1 s timer of pollBulkJob fires: the loop sends the next GET, or, the
\* job stopped, pollBulkJob and createBulkJob return resp to seedAllProducts
PollDelay ==
    /\ pc = "job_delay"
    /\ now' = now + POLL_DELAY_MS
    /\ IF ~PollDone(resp)
       THEN /\ PollsOfJob(adminCalls) < MaxPolls
            /\ adminCalls' = Append(adminCalls,
                                    AdminCall("GET", JobKind(jobApi), jobName, <<>>,
                                              now + POLL_DELAY_MS))
            /\ pc' = "job_get"
            /\ UNCHANGED <<jobApi, previewJob, liveJob, files, error>>
       ELSE IF jobApi = "preview" THEN AfterPreviewJob ELSE AfterLiveJob
    /\ UNCHANGED <<productList, jobName, resp>>
    /\ UNCHANGED <<catalogSize, serverPageCap, arg, helixApiKey, currentPage, totalPages,
                   results, pageRequests>>
    /\ UNCHANGED <<pathVars, urlVars, catalogVars, seedVars, publishVars>>

\* ---- the inputs the model draws

PageCaps == {1, 2, LIST_PAGE_SIZE}

URLKEY_PATTERN == <<"/", "p", "/">> \o URLKEY_PLACEHOLDER
SKU_PATTERN == <<"/", "s", "/">> \o SKU_PLACEHOLDER
RELATIVE_PATTERN == <<"p", "/">> \o URLKEY_PLACEHOLDER

ConfEntry(key, store, view) == [key |-> key, storeCode |-> store, storeViewCode |-> view]

\* the site configs of the runs: one pattern, two patterns of which the
\* first resolves to a relative path, and a pattern of another store
SiteConfMaps == {
    <<ConfEntry(URLKEY_PATTERN, "main", "default")>>,
    <<ConfEntry(URLKEY_PATTERN, "main", "default"), ConfEntry(SKU_PATTERN, "main", "default")>>,
    <<ConfEntry(RELATIVE_PATTERN, "main", "default"), ConfEntry(SKU_PATTERN, "main", "default")>>,
    <<ConfEntry(SKU_PATTERN, "other", "default")>> }

PageIdle ==
    /\ catalogSize = 0
    /\ serverPageCap = 1
    /\ arg = "none"
    /\ helixApiKey = FALSE
    /\ pc = "idle"
    /\ currentPage = 1
    /\ totalPages = 2
    /\ results = <<>>
    /\ pageRequests = <<>>
    /\ now = 0

BulkIdle ==
    /\ productList = <<>>
    /\ jobApi = "none"
    /\ jobName = "none"
    /\ resp = NoJob
    /\ adminCalls = <<>>
    /\ previewJob = NoJob
    /\ liveJob = NoJob
    /\ files = <<>>
    /\ error = NoError

\* the state a run of part_000 starts in
BulkInit ==
    /\ catalogSize \in 0..MaxItems
    /\ serverPageCap \in PageCaps
    /\ arg \in {"list", "seed"}
    /\ helixApiKey \in BOOLEAN
    /\ pc = "start"
    /\ currentPage = 1
    /\ totalPages = 2
    /\ results = <<>>
    /\ pageRequests = <<>>
    /\ now = 0
    /\ BulkIdle
    /\ confMap \in SiteConfMaps
    /\ envStoreCode = "main"
    /\ envStoreViewCode = "default"
    /\ sku = Undefined
    /\ urlKey = Undefined
    /\ previewPublishPaths = <<>>
    /\ pathsPc = "idle"

BulkNext ==
    \/ BulkStart
    \/ ListFetchPage
    \/ ListPageResponse
    \/ ListDone
    \/ BulkPostResponse
    \/ PollGetResponse
    \/ PollDelay

-----------------------------------------------------------------------------
(* The per-product seedAllProducts and the entry point of src/src/index.js. *)

BATCH_SIZE == 5
DELAY_MS == 2000

\* a promise is settled once it is fulfilled or rejected
Settled(status) == status \in {"fulfilled", "rejected"}

\* callPreviewPublish's purgePaths for product i; `product.url_key ||
\* product.urlKey` is the urlKey of the live search items
PurgePaths(cm, store, view, i) ==
    getPreviewPublishPaths(cm, store, view, Product(i).sku, Product(i).urlKey)

\* the promise callPreviewPublish returns at the call: without a path the
\* loop body never runs and the function returns at once
Launched(cm, store, view, i) ==
    IF PurgePaths(cm, store, view, i) = <<>> THEN "fulfilled" ELSE "pending"

\* the batch registered with Promise.allSettled(batchRequests).then(...)
Batch(page, items, requests) ==
    [page |-> page, products |-> items, requests |-> requests, reconciled |-> FALSE]

\* Promise.allSettled(batchRequests) is resolved
BatchSettled(batch, states) ==
    \A k \in 1..Len(batch.requests) : Settled(states[batch.requests[k]])

\* the callback of .then: for (const [index, result] of batchResults.entries()).
\* A result is the pipeline it comes from; the product of a failure is
\* products[index]
RECURSIVE Reconcile(_, _, _, _, _)
Reconcile(batch, states, index, res, errs) ==
    IF index > Len(batch.requests)
    THEN [results |-> res, previewErrors |-> errs]
    ELSE IF states[batch.requests[index]] = "fulfilled"
    THEN Reconcile(batch, states, index + 1, Append(res, batch.requests[index]), errs)
    ELSE Reconcile(batch, states, index + 1, res,
                   Append(errs, [reason |-> batch.requests[index],
                                 product |-> batch.products[index]]))

\* callbacks that are called again with every settlement
DueAgain(bs, states) == { k \in 1..Len(bs) : BatchSettled(bs[k], states) }

\* the batches whose callback is due: registered, settled, not yet called
Due(bs, states) ==
    { k \in 1..Len(bs) : ~bs[k].reconciled /\ BatchSettled(bs[k], states) }

\* the microtasks that follow a settlement or a registration: the callbacks
\* of the batches that are due run, in the order the batches were registered
RECURSIVE RunCallbacks(_, _, _, _, _)
RunCallbacks(bs, states, k, res, errs) ==
    IF k > Len(bs)
    THEN [batches |-> bs, results |-> res, previewErrors |-> errs]
    ELSE IF k \in Due(bs, states)
    THEN LET after == Reconcile(bs[k], states, 1, res, errs)
         IN  RunCallbacks([bs EXCEPT ![k].reconciled = TRUE], states, k + 1,
                          after.results, after.previewErrors)
    ELSE RunCallbacks(bs, states, k + 1, res, errs)

\* a loop that never waits between two pages
NeverDelay(page, total) == FALSE

\* if (currentPage <= totalPages) await delay(DELAY_MS)
NeedsDelay(page, total) == page <= total

\* arg === 'list' ? listAllProducts() : seedAllProducts()
SeedStart ==
    /\ pc = "index_start"
    /\ pc' = IF arg = "list" THEN "list_loop" ELSE "seed_loop"
    /\ UNCHANGED <<catalogSize, serverPageCap, arg, helixApiKey, currentPage, totalPages,
                   results, pageRequests, now>>
    /\ UNCHANGED <<pathVars, urlVars, catalogVars, bulkVars, seedVars, publishVars>>

\* while (currentPage <= totalPages): fetchProductBatch(BATCH_SIZE, currentPage)
\* is sent; the loop over, Promise.allSettled(allPromises) is awaited
SeedLoop ==
    /\ pc = "seed_loop"
    /\ IF currentPage <= totalPages
       THEN /\ pageRequests' = Append(pageRequests,
                                      [pageSize |-> BATCH_SIZE, currentPage |-> currentPage])
            /\ events' = Append(events, [kind |-> "page", page |-> currentPage,
                                         product |-> 0, time |-> now])
            /\ pc' = "seed_fetch"
       ELSE /\ pc' = "seed_join"
            /\ UNCHANGED <<pageRequests, events>>
    /\ UNCHANGED <<catalogSize, serverPageCap, arg, helixApiKey, currentPage, totalPages,
                   results, now>>
    /\ UNCHANGED <<productsData, products, productIndex, batchRequests, batches, promises,
                   previewErrors, catalogErrors>>
    /\ UNCHANGED <<pathVars, urlVars, catalogVars, bulkVars, publishVars>>

\* allPromises: the requests of the batches registered so far
RECURSIVE AllPromises(_)
AllPromises(bs) ==
    IF bs = <<>> THEN <<>> ELSE AllPromises(SubSeq(bs, 1, Len(bs) - 1)) \o bs[Len(bs)].requests

\* the end of the loop body: the batch is registered, its callback runs once
\* due, the pagination is updated and the delay is awaited when a page remains
BatchEnd(items, requests, settled, data) ==
    /\ LET after == RunCallbacks(Append(batches, Batch(currentPage, items, requests)),
                                 settled, 1, results, previewErrors)
       IN  /\ batches' = after.batches
           /\ results' = after.results
           /\ previewErrors' = after.previewErrors
    /\ totalPages' = data.total_pages
    /\ currentPage' = NextPage(currentPage)
    /\ pc' = IF NeedsDelay(NextPage(currentPage), data.total_pages)
             THEN "seed_delay" ELSE "seed_loop"

\* a loop that goes on with its test after a page that failed
Continue == "seed_loop"

\* if (!productsData) { console.error('Failed to fetch data. Exiting.'); break; }
Break == "seed_join"

\* the page arrives: null breaks the loop; otherwise the loop over the
\* page's products starts with the catalog lookup of the first one
SeedPageResponse ==
    /\ pc = "seed_fetch"
    /\ \E outcome \in FetchOutcomes :
         LET data == fetchProductBatch(outcome, catalogSize, serverPageCap,
                                       BATCH_SIZE, currentPage)
         IN  IF data.null
             THEN /\ pc' = Break
                  /\ events' = Append(events, [kind |-> "null", page |-> currentPage,
                                               product |-> 0, time |-> now])
                  /\ UNCHANGED <<productsData, products, productIndex, batchRequests,
                                 batches, results, previewErrors, totalPages, currentPage>>
             ELSE /\ UNCHANGED events
                  /\ productsData' = data
                  /\ products' = data.items
                  /\ productIndex' = 1
                  /\ batchRequests' = <<>>
                  /\ IF data.items = <<>>
                     THEN BatchEnd(<<>>, <<>>, promises, data)
                     ELSE /\ pc' = "seed_lookup"
                          /\ UNCHANGED <<batches, results, previewErrors, totalPages,
                                         currentPage>>
    /\ UNCHANGED <<promises, catalogErrors>>
    /\ UNCHANGED <<catalogSize, serverPageCap, arg, helixApiKey, pageRequests, now>>
    /\ UNCHANGED <<pathVars, urlVars, catalogVars, bulkVars, publishVars>>

\* what the catalog service answers a lookup of the seed with: the product,
\* or no product
SeedCatalogResponses ==
    { [rejects |-> FALSE, ok |-> TRUE,
       body |-> [shape |-> "object", data |-> "object", products |-> "array",
                 items |-> <<[id |-> "1", sku |-> "AB"]>>, errors |-> "undefined"]],
      [rejects |-> FALSE, ok |-> TRUE,
       body |-> [shape |-> "object", data |-> "object", products |-> "array",
                 items |-> <<>>, errors |-> "undefined"]] }

\* a loop that pushes a pipeline whatever the lookup gave
PushedAlways(requests, found, product) == Append(requests, product)

\* batchRequests.push(callPreviewPublish(...)), reached when the lookup did
\* not throw
Pushed(requests, found, product) == IF found THEN Append(requests, product) ELSE requests

\* the catalog lookup of products[productIndex] is back: callPreviewPublish
\* is called and its promise pushed, or the catch clause records the
\* product; then the next lookup is sent, or the loop body ends
SeedLookupResponse ==
    /\ pc = "seed_lookup"
    /\ \E response \in SeedCatalogResponses :
         LET product == products[productIndex]
             found == fetchCatalogProduct(response).kind = "return"
             requests == Pushed(batchRequests, found, product)
             settled == [promises EXCEPT ![product] =
                            IF found
                            THEN Launched(confMap, envStoreCode, envStoreViewCode, product)
                            ELSE "skipped"]
         IN  /\ batchRequests' = requests
             /\ promises' = settled
             /\ catalogErrors' =
                    IF found THEN catalogErrors
                    ELSE Append(catalogErrors,
                                [error |-> fetchCatalogProduct(response).message,
                                 product |-> product])
             /\ events' =
                    IF found
                    THEN Append(events, [kind |-> "launch", page |-> currentPage,
                                         product |-> product, time |-> now])
                    ELSE events
             /\ productIndex' = productIndex + 1
             /\ IF productIndex = Len(products)
                THEN BatchEnd(products, requests, settled, productsData)
                ELSE /\ pc' = "seed_lookup"
                     /\ UNCHANGED <<batches, results, previewErrors, totalPages, currentPage>>
    /\ UNCHANGED <<productsData, products>>
    /\ UNCHANGED <<catalogSize, serverPageCap, arg, helixApiKey, pageRequests, now>>
    /\ UNCHANGED <<pathVars, urlVars, catalogVars, bulkVars, publishVars>>

\* the timer of delay(DELAY_MS) fires
SeedDelay ==
    /\ pc = "seed_delay"
    /\ now' = now + DELAY_MS
    /\ pc' = "seed_loop"
    /\ UNCHANGED <<catalogSize, serverPageCap, arg, helixApiKey, currentPage, totalPages,
                   results, pageRequests>>
    /\ UNCHANGED <<pathVars, urlVars, catalogVars, bulkVars, seedVars, publishVars>>

\* a pipeline settles: callPreviewPublish returns its result, or one of its
\* admin calls throws; the callback of its batch runs when the batch is due
SettlePipeline ==
    /\ pc # "crashed"
    /\ \E i \in DOMAIN promises, status \in {"fulfilled", "rejected"} :
         /\ promises[i] = "pending"
         /\ promises' = [promises EXCEPT ![i] = status]
         /\ LET after == RunCallbacks(batches, promises', 1, results, previewErrors)
            IN  /\ batches' = after.batches
                /\ results' = after.results
                /\ previewErrors' = after.previewErrors
    /\ UNCHANGED <<productsData, products, productIndex, batchRequests, catalogErrors, events>>
    /\ UNCHANGED <<catalogSize, serverPageCap, arg, helixApiKey, pc, currentPage, totalPages,
                   pageRequests, now>>
    /\ UNCHANGED <<pathVars, urlVars, catalogVars, bulkVars, publishVars>>

\* a pipeline rejects while the for loop of its page still awaits a catalog
\* lookup: Promise.allSettled(batchRequests) has not been called, so the
\* rejection has no handler. A runtime that throws on unhandled rejections
\* ends the process here; one that warns goes on as in SettlePipeline.
RejectUnhandled ==
    /\ pc = "seed_lookup"
    /\ \E k \in 1..Len(batchRequests) :
         /\ promises[batchRequests[k]] = "pending"
         /\ promises' = [promises EXCEPT ![batchRequests[k]] = "rejected"]
    /\ pc' = "crashed"
    /\ error' = RawError("unhandledRejection", "callPreviewPublish")
    /\ UNCHANGED <<productsData, products, productIndex, batchRequests, batches,
                   previewErrors, catalogErrors, events>>
    /\ UNCHANGED <<catalogSize, serverPageCap, arg, helixApiKey, currentPage, totalPages,
                   results, pageRequests, now>>
    /\ UNCHANGED <<productList, jobApi, jobName, resp, adminCalls, previewJob, liveJob, files>>
    /\ UNCHANGED <<pathVars, urlVars, catalogVars, publishVars>>

\* the preview-errors and catalog-errors files, written when not empty
WrittenErrors(fs, name, errs) == IF errs = <<>> THEN fs ELSE Written(fs, name, errs)

\* await Promise.allSettled(allPromises) is over: the files are written
SeedJoin ==
    /\ pc = "seed_join"
    /\ \A k \in 1..Len(AllPromises(batches)) : Settled(promises[AllPromises(batches)[k]])
    /\ files' = WrittenErrors(WrittenErrors(Written(files, "output", results),
                                            "preview-errors", previewErrors),
                              "catalog-errors", catalogErrors)
    /\ pc' = "done"
    /\ UNCHANGED <<productList, jobApi, jobName, resp, adminCalls, previewJob, liveJob, error>>
    /\ UNCHANGED <<catalogSize, serverPageCap, arg, helixApiKey, currentPage, totalPages,
                   results, pageRequests, now>>
    /\ UNCHANGED <<pathVars, urlVars, catalogVars, seedVars, publishVars>>

\* ---- the inputs the model draws

NoData == [null |-> TRUE, items |-> <<>>, total_pages |-> 0]

\* the site configs of the seed runs: a url key pattern, which gives
\* product 2 no path, and a url key and a sku pattern
SeedConfMaps == {
    <<ConfEntry(URLKEY_PATTERN, "main", "default")>>,
    <<ConfEntry(URLKEY_PATTERN, "main", "default"), ConfEntry(SKU_PATTERN, "main", "default")>> }

\* the server caps a page at two products, or serves the size asked for
SeedPageCaps == {2, LIST_PAGE_SIZE}

SeedIdle ==
    /\ productsData = NoData
    /\ products = <<>>
    /\ productIndex = 1
    /\ batchRequests = <<>>
    /\ batches = <<>>
    /\ promises = <<>>
    /\ previewErrors = <<>>
    /\ catalogErrors = <<>>
    /\ events = <<>>

\* the state a run of src/src/index.js starts in
SeedInit ==
    /\ catalogSize \in 0..MaxSeedItems
    /\ serverPageCap \in SeedPageCaps
    /\ arg \in {"list", "seed"}
    /\ helixApiKey = FALSE
    /\ pc = "index_start"
    /\ currentPage = 1
    /\ totalPages = 2
    /\ results = <<>>
    /\ pageRequests = <<>>
    /\ now = 0
    /\ BulkIdle
    /\ productsData = NoData
    /\ products = <<>>
    /\ productIndex = 1
    /\ batchRequests = <<>>
    /\ batches = <<>>
    /\ promises = [i \in 1..catalogSize |-> "none"]
    /\ previewErrors = <<>>
    /\ catalogErrors = <<>>
    /\ events = <<>>
    /\ confMap \in SeedConfMaps
    /\ envStoreCode = "main"
    /\ envStoreViewCode = "default"
    /\ sku = Undefined
    /\ urlKey = Undefined
    /\ previewPublishPaths = <<>>
    /\ pathsPc = "idle"

SeedNext ==
    \/ SeedStart
    \/ ListFetchPage
    \/ ListPageResponse
    \/ ListDone
    \/ SeedLoop
    \/ SeedPageResponse
    \/ SeedLookupResponse
    \/ SeedDelay
    \/ SettlePipeline
    \/ RejectUnhandled
    \/ SeedJoin

-----------------------------------------------------------------------------
(* callPreviewPublish (src/src/utils/admin.js). *)

\* What fetch answers an admin call with: a rejection, or a response
\* [status, body, xError]. body is "not_json" (response.json() throws),
\* "no_op" (JSON without the key of the operation) or "op" (JSON with
\* body[op].url); xError is the x-error header, "null" when it is not sent.
NoResponse == [rejects |-> TRUE, status |-> 0, body |-> "not_json", xError |-> "null"]

AdminResponses ==
    {NoResponse}
    \cup [rejects : {FALSE}, status : {200, 404}, body : {"not_json", "no_op", "op"},
          xError : {"null", "not found"}]

\* a callAdminWithOp that returns whatever the call was answered with
OpThrowsNever(response) == FALSE

\* callAdminWithOp(op) throws: fetch rejects, response.json() throws, or
\* body[op] is undefined and body[op].url is a TypeError
OpThrows(response) == response.rejects \/ response.body # "op"

\* the message of what callAdminWithOp throws
OpError(response) ==
    IF response.rejects THEN "fetch failed"
    ELSE IF response.body = "not_json" THEN "SyntaxError"
    ELSE "TypeError"

\* return { op, url: body[op].url, status: response.status, message: error || null }
OpReturn(op, purgePath, response) ==
    [op |-> op, url |-> <<op>> \o purgePath, status |-> response.status,
     message |-> response.xError]

\* { status, url, ...(message && { message }) }
OpEntry(operation) ==
    [op |-> operation.op, status |-> operation.status, url |-> operation.url,
     message |-> IF operation.message = "null" THEN "absent" ELSE operation.message]

\* result.paths[path] = {}: a new key is added last, a known key keeps its place
PathReset(paths, purgePath) ==
    IF \E k \in 1..Len(paths) : paths[k].path = purgePath
    THEN [k \in 1..Len(paths) |->
            IF paths[k].path = purgePath THEN [path |-> purgePath, ops |-> <<>>] ELSE paths[k]]
    ELSE Append(paths, [path |-> purgePath, ops |-> <<>>])

\* operations.forEach(...): result.paths[path][op] = {...}
PathRecorded(paths, purgePath, ops) ==
    [k \in 1..Len(paths) |->
        IF paths[k].path = purgePath
        THEN [path |-> purgePath, ops |-> [i \in 1..Len(ops) |-> OpEntry(ops[i])]]
        ELSE paths[k]]

\* an admin call of callPreviewPublish, not answered yet
Pending == [rejects |-> FALSE, status |-> 0, body |-> "pending", xError |-> "null"]

PublishCall(op, purgePath) == [op |-> op, path |-> purgePath, response |-> Pending]

\* the for loop reaches purgePaths[index]: the path's entry is reset and its
\* preview call sent; past the last path the function returns result
PublishPath(index) ==
    /\ pathIndex' = index
    /\ operations' = <<>>
    /\ IF index > Len(purgePaths')
       THEN /\ publishPc' = "fulfilled"
            /\ UNCHANGED <<result, publishCalls>>
       ELSE /\ result' = PathReset(result, purgePaths'[index])
            /\ publishCalls' = Append(publishCalls, PublishCall("preview", purgePaths'[index]))
            /\ publishPc' = "await"

\* callPreviewPublish(config, method, sku, urlKey, shouldPublish) is called
CallPreviewPublish ==
    /\ publishPc = "call"
    /\ purgePaths' = getPreviewPublishPaths(confMap, envStoreCode, envStoreViewCode,
                                            sku, urlKey)
    /\ PublishPath(1)
    /\ UNCHANGED <<shouldPublish, publishError>>
    /\ UNCHANGED <<pathVars, urlVars, catalogVars, pageVars, bulkVars, seedVars>>

\* the admin call under way is answered: callAdminWithOp throws and the
\* function rejects, or the operation is kept; after preview the live call
\* is sent if (shouldPublish); the operations of the path over, they are
\* recorded and the loop goes on
PublishResponse ==
    /\ publishPc = "await"
    /\ \E response \in AdminResponses :
         LET call == publishCalls[Len(publishCalls)]
             answered == [publishCalls EXCEPT ![Len(publishCalls)].response = response]
             ops == Append(operations, OpReturn(call.op, call.path, response))
         IN  IF OpThrows(response)
             THEN /\ publishCalls' = answered
                  /\ publishPc' = "rejected"
                  /\ publishError' = OpError(response)
                  /\ UNCHANGED <<purgePaths, pathIndex, operations, result>>
             ELSE IF call.op = "preview" /\ shouldPublish
             THEN /\ publishCalls' = Append(answered, PublishCall("live", call.path))
                  /\ operations' = ops
                  /\ UNCHANGED <<purgePaths, pathIndex, result, publishPc, publishError>>
             ELSE /\ UNCHANGED <<purgePaths, publishError>>
                  /\ pathIndex' = pathIndex + 1
                  /\ operations' = <<>>
                  /\ LET recorded == PathRecorded(result, call.path, ops)
                     IN  IF pathIndex + 1 > Len(purgePaths)
                         THEN /\ result' = recorded
                              /\ publishCalls' = answered
                              /\ publishPc' = "fulfilled"
                         ELSE /\ result' = PathReset(recorded, purgePaths[pathIndex + 1])
                              /\ publishCalls' =
                                    Append(answered,
                                           PublishCall("preview", purgePaths[pathIndex + 1]))
                              /\ publishPc' = "await"
    /\ UNCHANGED shouldPublish
    /\ UNCHANGED <<pathVars, urlVars, catalogVars, pageVars, bulkVars, seedVars>>

\* ---- the inputs the model draws

PublishIdle ==
    /\ shouldPublish = TRUE
    /\ purgePaths = <<>>
    /\ pathIndex = 1
    /\ operations = <<>>
    /\ publishCalls = <<>>
    /\ result = <<>>
    /\ publishError = "none"
    /\ publishPc = "idle"

\* the state before a call of callPreviewPublish for a product of the catalog
PublishInit ==
    /\ shouldPublish \in BOOLEAN
    /\ purgePaths = <<>>
    /\ pathIndex = 1
    /\ operations = <<>>
    /\ publishCalls = <<>>
    /\ result = <<>>
    /\ publishError = "none"
    /\ publishPc = "call"
    /\ confMap \in SiteConfMaps
    /\ envStoreCode = "main"
    /\ envStoreViewCode = "default"
    /\ \E i \in 1..2 : sku = Product(i).sku /\ urlKey = Product(i).urlKey
    /\ previewPublishPaths = <<>>
    /\ pathsPc = "idle"

PublishNext ==
    \/ CallPreviewPublish
    \/ PublishResponse

-----------------------------------------------------------------------------
(* pollBulkJob on its own (src/src/utils/admin.js): the calls it sends are  *)
(* the GETs of the job details, a second apart.                            *)

\* the paths a bulk job can have been created with
PollPaths ==
    { ProductListOf(cm, "main", "default", [i \in 1..n |-> i]) :
        cm \in SiteConfMaps, n \in 0..MaxItems }

\* the GET of the job details is answered: a rejection, a body that is not
\* JSON or the JSON null make pollBulkJob throw; otherwise resp is read, done
\* is set when resp.state === 'stopped', and the 1 s timer is set
PollBulkJobResponse ==
    /\ pc = "poll_get"
    /\ \/ \E failure \in {"rejects", "malformed", "null"} :
            /\ error' = RawError(failure, "pollBulkJob")
            /\ adminCalls' = Answered(adminCalls, failure)
            /\ pc' = "poll_threw"
            /\ UNCHANGED resp
       \/ \E details \in JobDetails(productList) :
            /\ resp' = details
            /\ adminCalls' = AnsweredDetails(adminCalls, details)
            /\ pc' = "poll_delay"
            /\ UNCHANGED error
    /\ UNCHANGED <<productList, jobApi, jobName, previewJob, liveJob, files>>
    /\ UNCHANGED <<catalogSize, serverPageCap, arg, helixApiKey, currentPage, totalPages,
                   results, pageRequests, now>>
    /\ UNCHANGED <<pathVars, urlVars, catalogVars, seedVars, publishVars>>

\* the 1 s timer fires: while (!done) sends the next GET, or pollBulkJob
\* returns resp
PollBulkJobTimer ==
    /\ pc = "poll_delay"
    /\ now' = now + POLL_DELAY_MS
    /\ IF PollDone(resp)
       THEN /\ pc' = "poll_returned"
            /\ UNCHANGED adminCalls
       ELSE /\ Len(adminCalls) < MaxPollGets
            /\ adminCalls' = Append(adminCalls,
                                    AdminCall("GET", JobKind(jobApi), jobName, <<>>,
                                              now + POLL_DELAY_MS))
            /\ pc' = "poll_get"
    /\ UNCHANGED <<productList, jobApi, jobName, resp, previewJob, liveJob, files, error>>
    /\ UNCHANGED <<catalogSize, serverPageCap, arg, helixApiKey, currentPage, totalPages,
                   results, pageRequests>>
    /\ UNCHANGED <<pathVars, urlVars, catalogVars, seedVars, publishVars>>

\* pollBulkJob(config, api, jobName) is called for a job of the server whose
\* paths are productList: its first GET is sent
PollInit ==
    /\ catalogSize = 0
    /\ serverPageCap = 1
    /\ arg = "none"
    /\ helixApiKey = TRUE
    /\ pc = "poll_get"
    /\ currentPage = 1
    /\ totalPages = 2
    /\ results = <<>>
    /\ pageRequests = <<>>
    /\ now = 0
    /\ jobApi \in {"preview", "live"}
    /\ jobName \in JobNames
    /\ productList \in PollPaths
    /\ adminCalls = <<AdminCall("GET", JobKind(jobApi), jobName, <<>>, 0)>>
    /\ resp = NoJob
    /\ previewJob = NoJob
    /\ liveJob = NoJob
    /\ files = <<>>
    /\ error = NoError

PollNext ==
    \/ PollBulkJobResponse
    \/ PollBulkJobTimer

-----------------------------------------------------------------------------
(* The specifications. *)

InitPaths == PathsInit /\ UrlIdle /\ CatalogIdle /\ PageIdle /\ BulkIdle /\ SeedIdle /\ PublishIdle

SpecPaths == InitPaths /\ [][PathsNext]_vars

InitUrl == UrlInit /\ PathsIdle /\ CatalogIdle /\ PageIdle /\ BulkIdle /\ SeedIdle /\ PublishIdle

SpecUrl == InitUrl /\ [][UrlNext]_vars

InitCatalog == CatalogInit /\ PathsIdle /\ UrlIdle /\ PageIdle /\ BulkIdle /\ SeedIdle /\ PublishIdle

SpecCatalog == InitCatalog /\ [][CatalogNext]_vars

InitBulk == BulkInit /\ UrlIdle /\ CatalogIdle /\ SeedIdle /\ PublishIdle

SpecBulk == InitBulk /\ [][BulkNext]_vars

InitSeed == SeedInit /\ UrlIdle /\ CatalogIdle /\ PublishIdle

SpecSeed == InitSeed /\ [][SeedNext]_vars

InitPublish == PublishInit /\ UrlIdle /\ CatalogIdle /\ PageIdle /\ BulkIdle /\ SeedIdle

SpecPublish == InitPublish /\ [][PublishNext]_vars

InitPoll == PollInit /\ PathsIdle /\ UrlIdle /\ CatalogIdle /\ SeedIdle /\ PublishIdle

\* responses arrive and timers fire
SpecPoll == InitPoll /\ [][PollNext]_vars /\ WF_vars(PollNext)

\* the runs of both programs: part_000 (list, bulk seed) and index.js (list,
\* per-product seed)
InitModes == InitBulk \/ InitSeed

ModesNext == BulkNext \/ SeedNext

SpecModes == InitModes /\ [][ModesNext]_vars

-----------------------------------------------------------------------------
(* Properties of getPreviewPublishPaths. *)

Range(seq) == { seq[i] : i \in 1..Len(seq) }

\* the first occurrence of pat in s replaced by the text repl itself
LiteralReplace(s, pat, repl) ==
    LET i == IndexOf(pat, s)
    IN  IF i = 0 THEN s
        ELSE Slice(s, 1, i - 1) \o repl \o Slice(s, i + Len(pat), Len(s))

LiteralSubstitute(pattern, s, u) ==
    LET p1 == IF Truthy(s) THEN LiteralReplace(pattern, SKU_PLACEHOLDER, s) ELSE pattern
    IN  IF Truthy(u) THEN LiteralReplace(p1, URLKEY_PLACEHOLDER, u) ELSE p1

\* C1: the returned paths are, in confMap order, the store/view-matching
\* non-base patterns with the first {{sku}} replaced by the sku and the first
\* {{urlkey}} replaced by the url key, those with a placeholder left dropped.
C1_LiteralSubstitution ==
    pathsPc = "done" =>
        LET matched == MatchedPathPatterns(confMap, envStoreCode, envStoreViewCode)
            literal == [i \in 1..Len(matched) |-> LiteralSubstitute(matched[i], sku, urlKey)]
        IN  previewPublishPaths = SelectSeq(literal, NoPlaceholder)

\* the descriptor lacks, or differs from, the active store or view code
LacksOrDiffers(e) ==
    \/ e.storeCode = Absent
    \/ e.storeCode # envStoreCode
    \/ e.storeViewCode = Absent
    \/ e.storeViewCode # envStoreViewCode

\* C2: when every non-base descriptor lacks, or differs from, the active
\* store code or store view code, set in the environment or not, the result
\* is the empty sequence.
C2_NoMatchIsEmpty ==
    (/\ pathsPc = "done"
     /\ \A j \in 1..Len(confMap) :
            confMap[j].key # BASE_KEY => LacksOrDiffers(confMap[j]))
        => previewPublishPaths = <<>>

\* entry j of confMap is a non-base entry that resolves to a path
Contributes(j) ==
    /\ confMap[j].key # BASE_KEY
    /\ MatchesStoreView(confMap[j], envStoreCode, envStoreViewCode)
    /\ NoPlaceholder(Substitute(confMap[j].key, sku, urlKey))

\* C3: the entry with key base never contributes a path, also when its
\* descriptor matches the active store and view; every returned path comes
\* from another key, and every other key that resolves is in the result.
C3_BaseExcluded ==
    pathsPc = "done" =>
        /\ \A i \in 1..Len(previewPublishPaths) :
              \E j \in 1..Len(confMap) :
                 /\ Contributes(j)
                 /\ previewPublishPaths[i] = Substitute(confMap[j].key, sku, urlKey)
        /\ \A j \in 1..Len(confMap) :
              Contributes(j) =>
                 Substitute(confMap[j].key, sku, urlKey) \in Range(previewPublishPaths)

\* a base entry that matches the active store and view, beside a key that resolves
C3_Witness ==
    /\ pathsPc = "done"
    /\ \E j \in 1..Len(confMap) :
          /\ confMap[j].key = BASE_KEY
          /\ MatchesStoreView(confMap[j], envStoreCode, envStoreViewCode)
    /\ Len(previewPublishPaths) = 1

-----------------------------------------------------------------------------
(* Properties of createAdminUrl. *)

MAIN == <<"m", "a", "i", "n">>

\* the characters the pathname setter rewrites, and "/" which splits a segment
RewrittenChars == {" ", "?", "#", "{", "}", "/"}

\* a segment the pathname setter keeps as given
PathSafe(seg) ==
    /\ seg # <<".">>
    /\ seg # <<".", ".">>
    /\ \A i \in 1..Len(seg) : seg[i] \notin RewrittenChars

OrgSiteRef(org, site, ref) == <<"/">> \o org \o <<"/">> \o site \o <<"/">> \o ref

\* C4, as stated: the org/site/ref segment is left out whenever org, site or
\* ref is missing from the config, and otherwise the given org, site and ref
\* stand verbatim between the api segment and the resource path.
C4_SegmentAsStated ==
    urlCalls > 0 =>
        adminUrl.pathname =
            IF ~Truthy(config.org) \/ ~Truthy(config.site) \/ ~Truthy(config.ref)
            THEN <<"/">> \o api \o path
            ELSE <<"/">> \o api \o OrgSiteRef(config.org, config.site, config.ref) \o path

\* C4, amended: a missing ref counts as main. The segment is left out when
\* org or site is missing or empty, or ref is null or empty; otherwise
\* org, site and ref (main when missing) stand between the api segment and
\* the resource path, verbatim when the pathname setter keeps them as given.
C4_SegmentRefDefaultsToMain ==
    urlCalls > 0 =>
        LET ref == IF config.ref = Undefined THEN MAIN ELSE config.ref
        IN  IF Truthy(config.org) /\ Truthy(config.site) /\ Truthy(ref)
            THEN (PathSafe(config.org) /\ PathSafe(config.site) /\ PathSafe(ref))
                    => adminUrl.pathname =
                          <<"/">> \o api \o OrgSiteRef(config.org, config.site, ref) \o path
            ELSE adminUrl.pathname = <<"/">> \o api \o path

\* a config with org and site and no ref, built into a URL with /org/site/main
C4_Witness ==
    /\ urlCalls > 0
    /\ config.ref = Undefined
    /\ Truthy(config.org) /\ PathSafe(config.org)
    /\ Truthy(config.site)
    /\ adminUrl.pathname = <<"/">> \o api \o OrgSiteRef(config.org, config.site, MAIN) \o path

\* the entries of a query with the key of the version tag
VersionTags(query) == { k \in 1..Len(query) : query[k].key = HLX_ADMIN_VERSION }

\* C22, as stated: createAdminUrl is deterministic and leaves its arguments
\* unchanged. Every call leaves the query-parameter object passed to it as
\* it was, every call after the first returns the URL the call before it
\* returned, and with adminVersion set the returned URL holds the version
\* tag exactly once.
C22_SameUrlEveryCall ==
    [][ urlCalls' = urlCalls + 1 =>
          /\ searchParams' = searchParams
          /\ urlCalls > 0 => adminUrl' = adminUrl
          /\ Truthy(config.adminVersion) =>
                Cardinality(VersionTags(adminUrl'.searchParams)) = 1 ]_vars

-----------------------------------------------------------------------------
(* Properties of fetchCatalogProduct. *)

\* a well-formed response with no matching product
ZeroMatches(response) ==
    /\ ~response.rejects
    /\ response.ok
    /\ response.body.shape = "object"
    /\ response.body.data = "object"
    /\ response.body.products = "array"
    /\ response.body.items = <<>>

IsParseError(outcome) ==
    /\ outcome.kind = "throw"
    /\ outcome.message[1] = "failed to parse product response: "

\* C9: a well-formed response with zero matching products fails with a
\* not-found error, never with the parse failure a malformed body gives.
C9_NotFoundIsNotParseError ==
    (catalogPc = "done" /\ ZeroMatches(catalogResponse))
        => (catalogOutcome.kind = "throw" /\ ~IsParseError(catalogOutcome))

-----------------------------------------------------------------------------
(* Properties of pollBulkJob, createBulkJob and the bulk pipeline. *)

Gets(kind) == { i \in 1..Len(adminCalls) :
                  adminCalls[i].op = "GET" /\ adminCalls[i].api = kind }

\* pollBulkJob returned job for the job of that kind: its last GET was
\* answered stopped, and job is that answer
ReturnedLastAnswer(kind, job) ==
    /\ Gets(kind) # {}
    /\ LET last == CHOOSE i \in Gets(kind) : \A j \in Gets(kind) : j <= i
       IN  /\ adminCalls[last].answer = "stopped"
           /\ job = adminCalls[last].details
           /\ job.state = "stopped"

\* C5: pollBulkJob returns only after a GET of the job details answered
\* stopped, returns that answer, sends no GET after it, and sends two
\* consecutive GETs exactly one 1 s delay apart.
C5_PollUntilStopped ==
    /\ previewJob # NoJob => ReturnedLastAnswer("preview", previewJob)
    /\ liveJob # NoJob => ReturnedLastAnswer("publish", liveJob)
    /\ \A i \in 1..(Len(adminCalls) - 1) :
          adminCalls[i].op = "GET" =>
             /\ adminCalls[i].answer = "stopped" => adminCalls[i + 1].op # "GET"
             /\ adminCalls[i + 1].op = "GET" =>
                   adminCalls[i + 1].time - adminCalls[i].time = 1000

\* the preview job returned after a GET that found it running and one that
\* found it stopped
C5_Witness ==
    /\ previewJob # NoJob
    /\ \E i \in Gets("preview") :
          /\ adminCalls[i].answer = "running"
          /\ adminCalls[i + 1].answer = "stopped"

LivePosts == { i \in 1..Len(adminCalls) :
                 adminCalls[i].op = "POST" /\ adminCalls[i].api = "live" }

FileNames == { files[i].name : i \in 1..Len(files) }
FileContent(name) == files[CHOOSE i \in 1..Len(files) : files[i].name = name].content

\* sub holds elements of distinct positions of seq, in the order of seq
InOrderOf(sub, seq) ==
    \A a, b \in 1..Len(sub) :
       a < b => \E i, j \in 1..Len(seq) : i < j /\ seq[i].path = sub[a] /\ seq[j].path = sub[b]

\* C6: the paths of the live bulk job are the paths of the preview job's
\* resources of status 200, in resource order; no path of another status is
\* among them, and those are written apart as the preview failures.
C6_LiveJobOfSuccessfulPreviews ==
    \A p \in LivePosts :
       LET submitted == adminCalls[p].paths
           resources == previewJob.resources
           ok == { j \in 1..Len(resources) : resources[j].status = 200 }
           failed == { j \in 1..Len(resources) : resources[j].status # 200 }
       IN  /\ Len(submitted) = Cardinality(ok)
           /\ \A j \in ok : resources[j].path \in Range(submitted)
           /\ \A j \in failed : resources[j].path \notin Range(submitted)
           /\ InOrderOf(submitted, resources)
           /\ failed # {} =>
                 /\ "bulk-preview-failed-list" \in FileNames
                 /\ Range(FileContent("bulk-preview-failed-list"))
                       = { resources[j].path : j \in failed }
                 /\ Range(FileContent("bulk-preview-failed"))
                       = { resources[j] : j \in failed }

\* a live job of two paths, after a preview job of which one path failed
C6_Witness ==
    \E p \in LivePosts :
       /\ Len(adminCalls[p].paths) = 2
       /\ Len(previewJob.resources) = 3

\* C10, as stated: whatever fails in createBulkJob (the POST, reading its
\* answer, the polling) reaches the caller as a "Bulk job failed" error
\* wrapping the cause.
C10_EveryFailureWrapped ==
    (error.thrown /\ error.from = "createBulkJob") => error.wrapped

-----------------------------------------------------------------------------
(* Properties of listAllProducts. *)

\* the pages the server serves to listAllProducts
ListPages == TotalPagesOf(catalogSize, Min(LIST_PAGE_SIZE, serverPageCap))

ListReturned == "all-products" \in FileNames

\* C7: with N products on P >= 1 pages, each answer giving total_pages = P,
\* listAllProducts requests the pages 1..P once each, in this order (not
\* page 2 when P = 1), and ends with the N products in page order.
C7_ListAllPages ==
    ListPages >= 1 =>
        /\ Len(pageRequests) <= ListPages
        /\ \A i \in 1..Len(pageRequests) : pageRequests[i].currentPage = i
        /\ ListReturned =>
              /\ Len(pageRequests) = ListPages
              /\ results = [i \in 1..catalogSize |-> i]
              /\ FileContent("all-products") = results

\* three products listed from three pages
C7_Witness ==
    /\ ListReturned
    /\ Len(pageRequests) = 3
    /\ Len(results) = 3

-----------------------------------------------------------------------------
(* Properties of the per-product seedAllProducts. *)

\* the products whose pipeline was launched while page k was under way
LaunchesOfPage(k) ==
    LET launches == SelectSeq(events, LAMBDA e : e.kind = "launch" /\ e.page = k)
    IN  [i \in 1..Len(launches) |-> launches[i].product]

\* page k + 1 is requested no sooner than 2000 ms after the request of page
\* k and after every launch of the batch of page k
DelayedAfter(e, request) ==
    (request.kind = "page" /\ e.page + 1 = request.page) => request.time >= e.time + 2000

\* C8: in the per-product seed, every page is requested with page size 5;
\* the pipelines launched for the products of one page form one batch, of at
\* most 5 products; the request of the next page comes 2000 ms or more after
\* the launches of a batch, the delay is awaited only while a page remains,
\* and the run waits 2000 ms per page requested but the last.
C8_BatchesOfFive ==
    arg = "seed" =>
        /\ \A r \in Range(pageRequests) : r.pageSize = 5
        /\ \A k \in 1..Len(batches) :
               /\ batches[k].requests = LaunchesOfPage(batches[k].page)
               /\ Len(batches[k].requests) <= 5
               /\ batches[k].page = pageRequests[k].currentPage
        /\ \A e \in Range(events), request \in Range(events) : DelayedAfter(e, request)
        /\ pc = "seed_delay" => currentPage <= totalPages
        /\ (pc \in {"seed_join", "done"} /\ pageRequests # <<>>) =>
               now = 2000 * (Len(pageRequests) - 1)

\* a run that launched a batch of five, waited and requested the second page
C8_Witness ==
    /\ arg = "seed"
    /\ pc = "done"
    /\ Len(batches) = 2
    /\ Len(batches[1].requests) = 5
    /\ Len(batches[2].requests) = 1
    /\ \E e \in Range(events) : e.kind = "page" /\ e.page = 2 /\ e.time = 2000
    /\ now = 2000

-----------------------------------------------------------------------------
(* Properties of callPreviewPublish. *)

PublishSettled == publishPc \in {"fulfilled", "rejected"}

\* an admin call of operation op was sent for purgePaths[k]
Issued(op, k) ==
    \E c \in 1..Len(publishCalls) :
        publishCalls[c].op = op /\ publishCalls[c].path = purgePaths[k]

\* C11, as stated: with shouldPublish, once callPreviewPublish has settled a
\* preview call and a live call were issued for every resolved path,
\* whatever the calls were answered with.
C11_BothCallsForEveryPath ==
    (shouldPublish /\ PublishSettled) =>
        \A k \in 1..Len(purgePaths) : Issued("preview", k) /\ Issued("live", k)

\* the admin call was answered and callAdminWithOp read the answer: fetch
\* resolved, response.json() resolved and body[op].url was there
ReceivedAndRead(call) ==
    /\ call.response # Pending
    /\ ~call.response.rejects
    /\ call.response.body = "op"

\* the admin calls that are not answered yet
Outstanding == { c \in 1..Len(publishCalls) : publishCalls[c].response = Pending }

\* C21: in callPreviewPublish a path is staged before it is promoted. Only
\* the last call sent can be outstanding, and only while the function
\* awaits; a live call directly follows the preview call of the same path,
\* whose answer was received and read; a preview call that is not the first
\* call follows the last call of the path before it (its live call with
\* shouldPublish, its preview call without), answered and read.
C21_StagedBeforePromoted ==
    /\ Outstanding \subseteq {Len(publishCalls)}
    /\ Outstanding # {} => publishPc = "await"
    /\ \A c \in 1..Len(publishCalls) :
         LET call == publishCalls[c]
         IN  /\ call.op = "live" =>
                   /\ shouldPublish
                   /\ c > 1
                   /\ publishCalls[c - 1].op = "preview"
                   /\ publishCalls[c - 1].path = call.path
                   /\ ReceivedAndRead(publishCalls[c - 1])
             /\ (call.op = "preview" /\ c > 1) =>
                   /\ publishCalls[c - 1].op = (IF shouldPublish THEN "live" ELSE "preview")
                   /\ ReceivedAndRead(publishCalls[c - 1])

\* callPreviewPublish returned after two paths were staged and promoted, the
\* four calls in the order preview, live, preview, live
C21_Witness ==
    /\ publishPc = "fulfilled"
    /\ shouldPublish
    /\ Len(purgePaths) = 2
    /\ purgePaths[1] # purgePaths[2]
    /\ Len(publishCalls) = 4
    /\ [c \in 1..4 |-> publishCalls[c].op] = <<"preview", "live", "preview", "live">>
    /\ [c \in 1..4 |-> publishCalls[c].path] =
          <<purgePaths[1], purgePaths[1], purgePaths[2], purgePaths[2]>>

-----------------------------------------------------------------------------
(* Properties of the page loops, in every mode of both programs. *)

\* the page responses received and processed: each one advanced currentPage
PagesProcessed == currentPage - 1

\* a page request whose response has not arrived
PageOutstanding == pc \in {"list_fetch", "seed_fetch"}

\* C12: the pages are requested one at a time, in the order 1, 2, 3, ...:
\* the requests sent exceed the responses processed by one at most, a
\* request is outstanding only as the last one sent, and the per-product
\* seed has registered the batch of every page processed.
C12_PagesInTurn ==
    /\ \A k \in 1..Len(pageRequests) : pageRequests[k].currentPage = k
    /\ Len(pageRequests) - PagesProcessed \in {0, 1}
    /\ PageOutstanding => Len(pageRequests) = PagesProcessed + 1
    /\ pc \in {"list_loop", "seed_loop", "seed_delay"} => Len(pageRequests) = PagesProcessed
    /\ (arg = "seed" /\ batches # <<>>) => Len(batches) = PagesProcessed

\* the third page is outstanding, in a run of part_000 or of index.js
C12_Witness ==
    /\ PageOutstanding
    /\ Len(pageRequests) = 3
    /\ pageRequests[3].currentPage = 3

-----------------------------------------------------------------------------
(* Properties of the failure lists of the per-product seedAllProducts. *)

\* C13, as stated: every entry of previewErrors stores the product whose
\* pipeline rejected (the entry's reason is the rejection of that pipeline).
C13_FailureNamesItsProduct ==
    \A k \in 1..Len(previewErrors) : previewErrors[k].product = previewErrors[k].reason

-----------------------------------------------------------------------------
(* Properties of the runs after a page that failed. *)

\* fetchProductBatch returned null: listAllProducts threw on it, or the
\* per-product seed logged it and left its loop
PageFetchFailed ==
    \/ error.thrown /\ error.from = "listAllProducts"
    \/ \E e \in Range(events) : e.kind = "null"

\* C14: once a page fetch has failed, in either mode of either program, no
\* page is requested, no catalog lookup is sent, no pipeline is launched
\* and no bulk job is created or polled.
C14_NothingStartsAfterPageFailure ==
    [][PageFetchFailed =>
          /\ pageRequests' = pageRequests
          /\ pc' \notin {"list_fetch", "seed_fetch", "seed_lookup", "job_post", "job_get"}
          /\ events' = events
          /\ \A i \in DOMAIN promises : promises[i] = "none" => promises'[i] = "none"
          /\ adminCalls' = adminCalls]_vars

\* the per-product seed ended after the failure of its second page, with
\* the pipelines of the first page settled and written
C14_Witness ==
    /\ PageFetchFailed
    /\ pc = "done"
    /\ Len(pageRequests) = 2
    /\ Len(batches) = 1
    /\ batches[1].requests # <<>>

\* the entries of catalogErrors that store product i
CatalogFailures(i) == { k \in 1..Len(catalogErrors) : catalogErrors[k].product = i }

\* a pipeline of product i was launched or pushed
InPipeline(i) ==
    \/ \E e \in Range(events) : e.kind = "launch" /\ e.product = i
    \/ i \in Range(batchRequests)
    \/ \E b \in Range(batches) : i \in Range(b.requests)

\* the run ended and every page was served
SeededAllPages == arg = "seed" /\ pc = "done" /\ ~PageFetchFailed

\* C15: a product whose catalog lookup failed is once in catalogErrors and
\* has no pipeline; a product with a pipeline has no entry in catalogErrors
\* and a lookup that succeeded; skipping a product does not stop the run:
\* at its end every product of the catalog was skipped or launched.
C15_SkippedOnceNeverLaunched ==
    /\ \A i \in DOMAIN promises :
          /\ promises[i] = "skipped" =>
                Cardinality(CatalogFailures(i)) = 1 /\ ~InPipeline(i)
          /\ InPipeline(i) =>
                CatalogFailures(i) = {} /\ promises[i] \in {"pending", "fulfilled", "rejected"}
          /\ promises[i] = "none" => CatalogFailures(i) = {} /\ ~InPipeline(i)
    /\ SeededAllPages => \A i \in 1..catalogSize : promises[i] # "none"

\* a run over two pages that skipped the first product and launched the
\* pipelines of all the others
C15_Witness ==
    /\ SeededAllPages
    /\ catalogSize = 6
    /\ Len(batches) = 2
    /\ promises[1] = "skipped"
    /\ \A i \in 2..6 : InPipeline(i)

-----------------------------------------------------------------------------
(* Properties of the files of the per-product seedAllProducts. *)

\* the products whose pipeline was launched
LaunchedProducts == { e.product : e \in { x \in Range(events) : x.kind = "launch" } }

\* the positions of results that hold the result of the pipeline of product i
InResults(i) == { k \in 1..Len(results) : results[k] = i }

\* the positions of previewErrors that hold the rejection of that pipeline
InPreviewErrors(i) == { k \in 1..Len(previewErrors) : previewErrors[k].reason = i }

SeedFilesWritten == arg = "seed" /\ "output" \in FileNames

\* C16: when the files of the per-product seed are written, every pipeline
\* launched has settled, a fulfilled one is once in results and not in
\* previewErrors, a rejected one is once in previewErrors and not in
\* results, the two lists hold nothing else, and they are what is written.
C16_EveryPipelineAccountedOnce ==
    SeedFilesWritten =>
        /\ \A i \in LaunchedProducts :
              /\ Settled(promises[i])
              /\ promises[i] = "fulfilled" =>
                    Cardinality(InResults(i)) = 1 /\ InPreviewErrors(i) = {}
              /\ promises[i] = "rejected" =>
                    Cardinality(InPreviewErrors(i)) = 1 /\ InResults(i) = {}
        /\ Len(results) + Len(previewErrors) = Cardinality(LaunchedProducts)
        /\ FileContent("output") = results
        /\ previewErrors # <<>> =>
              "preview-errors" \in FileNames /\ FileContent("preview-errors") = previewErrors

\* the files were written after the second page failed, with a fulfilled
\* and a rejected pipeline among the launched ones
C16_Witness ==
    /\ SeedFilesWritten
    /\ PageFetchFailed
    /\ Len(pageRequests) = 2
    /\ \E i, j \in LaunchedProducts : promises[i] = "fulfilled" /\ promises[j] = "rejected"

-----------------------------------------------------------------------------
(* Properties of pollBulkJob. *)

PollSucceeds == pc # "poll_threw"

\* the job details requests sent
GetsSent == { i \in 1..Len(adminCalls) : adminCalls[i].op = "GET" }

\* the timer fired
TimerFired == pc = "poll_delay" /\ pc' # "poll_delay"

\* C17: when no poll fails, pollBulkJob returns if a GET is answered with
\* state stopped; while none is, it does not return: every timer that fires
\* sends one more GET, a second after the one before, and the GETs go on as
\* far as the model follows them (MaxPollGets). No request is sent other
\* than the GETs.
C17_ReturnsOnlyWhenStopped ==
    /\ ([]PollSucceeds /\ <>(resp.state = "stopped")) => <>(pc = "poll_returned")
    /\ ([]PollSucceeds /\ [](resp.state # "stopped"))
          => ([](pc # "poll_returned") /\ <>[](Cardinality(GetsSent) = MaxPollGets))
    /\ [](pc = "poll_returned" => resp.state = "stopped")
    /\ [](Cardinality(GetsSent) = Len(adminCalls))
    /\ [][ (TimerFired /\ resp.state # "stopped") =>
             /\ pc' = "poll_get"
             /\ now' = now + POLL_DELAY_MS
             /\ Len(adminCalls') = Len(adminCalls) + 1
             /\ adminCalls'[Len(adminCalls')].op = "GET"
             /\ adminCalls'[Len(adminCalls')].time =
                   adminCalls[Len(adminCalls)].time + POLL_DELAY_MS ]_vars
    /\ [][ (TimerFired /\ resp.state = "stopped") =>
             /\ pc' = "poll_returned"
             /\ adminCalls' = adminCalls ]_vars

\* pollBulkJob returned a stopped job with the resources of two paths, read
\* by its third GET: the GETs were sent at 0, 1 and 2 s, and it returned at 3 s
C17_Witness ==
    /\ pc = "poll_returned"
    /\ resp.state = "stopped"
    /\ Len(resp.resources) = 2
    /\ [i \in 1..Len(adminCalls) |-> adminCalls[i].time] = <<0, POLL_DELAY_MS, 2 * POLL_DELAY_MS>>
    /\ [i \in 1..Len(adminCalls) |-> adminCalls[i].answer] = <<"running", "running", "stopped">>
    /\ now = 3 * POLL_DELAY_MS

-----------------------------------------------------------------------------
(* Properties of createBulkJob. *)

Posts == { i \in 1..Len(adminCalls) : adminCalls[i].op = "POST" }

\* the bulk POST of the createBulkJob call that sent call i
PostOf(i) == CHOOSE p \in Posts : p <= i /\ \A q \in Posts : q <= i => q <= p

\* the job createBulkJob returned for that api, NoJob before it returns
ReturnedJob(a) == IF a = "preview" THEN previewJob ELSE liveJob

\* C18: a call of createBulkJob sends one POST, with forceUpdate and the
\* paths given, to the api given; no GET is sent while the POST is not
\* answered; every GET that follows asks for the job named in the POST's
\* answer, of kind publish for the api live and preview for preview; the job
\* returned is the stopped one of the last GET.
C18_OnePostThenPolls ==
    /\ \A i \in Posts :
          /\ adminCalls[i].forceUpdate
          /\ adminCalls[i].api \in {"preview", "live"}
          /\ \A j \in Posts : adminCalls[j].api = adminCalls[i].api => j = i
          /\ adminCalls[i].answer = "pending" => i = Len(adminCalls)
          /\ ReturnedJob(adminCalls[i].api) # NoJob =>
                ReturnedLastAnswer(IF adminCalls[i].api = "live" THEN "publish" ELSE "preview",
                                   ReturnedJob(adminCalls[i].api))
    /\ (jobApi # "none") => \E i \in Posts : adminCalls[i].api = jobApi
    /\ \A i \in 1..Len(adminCalls) :
          adminCalls[i].op = "GET" =>
             /\ \E p \in Posts : p < i
             /\ adminCalls[PostOf(i)].answer \in JobNames
             /\ adminCalls[i].name = adminCalls[PostOf(i)].answer
             /\ adminCalls[i].api =
                   (IF adminCalls[PostOf(i)].api = "live" THEN "publish" ELSE "preview")

\* createBulkJob returned the live job, polled twice as a publish job
C18_Witness ==
    /\ liveJob # NoJob
    /\ Cardinality(Gets("publish")) = 2
    /\ Cardinality(Posts) = 2

-----------------------------------------------------------------------------
(* Properties of the bulk seedAllProducts. *)

PostsOf(a) == { i \in Posts : adminCalls[i].api = a }

\* a call of the preview job failed: its POST or one of its GETs was not
\* answered with what createBulkJob needs
PreviewJobFailed ==
    \E i \in 1..Len(adminCalls) :
       /\ adminCalls[i].api = "preview"
       /\ adminCalls[i].answer \in {"rejects", "malformed", "no_job", "null"}

\* C19: the live job is created after a GET of the preview job answered
\* stopped and createBulkJob returned it; a run creates one preview job and
\* one live job at most; when the creation or the polling of the preview
\* job fails the run ends with the error and without a live job.
C19_LiveAfterPreviewStopped ==
    /\ Cardinality(PostsOf("preview")) <= 1
    /\ Cardinality(PostsOf("live")) <= 1
    /\ \A p \in PostsOf("live") :
          /\ previewJob.state = "stopped"
          /\ \E g \in Gets("preview") : g < p /\ adminCalls[g].answer = "stopped"
          /\ \E q \in PostsOf("preview") : q < p
    /\ PreviewJobFailed =>
          /\ error.thrown
          /\ pc = "failed"
          /\ previewJob = NoJob
          /\ PostsOf("live") = {}

\* the live job was created after the preview job was found running, then
\* stopped
C19_Witness ==
    /\ pc = "job_post"
    /\ PostsOf("live") # {}
    /\ Cardinality(Gets("preview")) = 2

\* C20: the paths of the preview job are built once the page loop is over,
\* from all the products listed: in product order, the first path
\* getPreviewPublishPaths resolves for each product that has one starting
\* with "/", and nothing else, so one path per product at most.
C20_OnePathPerProduct ==
    \A p \in PostsOf("preview") :
       LET submitted == adminCalls[p].paths
           all == [i \in 1..catalogSize |-> i]
           kept == SelectSeq(all, LAMBDA i :
                      LET paths == getPreviewPublishPaths(confMap, envStoreCode,
                                       envStoreViewCode, Product(i).sku, Product(i).urlKey)
                      IN  paths # <<>> /\ paths[1] # <<>> /\ paths[1][1] = "/")
       IN  /\ results = all
           /\ currentPage > totalPages
           /\ Len(pageRequests) >= ListPages
           /\ Len(submitted) = Len(kept)
           /\ Len(submitted) <= catalogSize
           /\ \A k \in 1..Len(kept) :
                 submitted[k] = getPreviewPublishPaths(confMap, envStoreCode, envStoreViewCode,
                                    Product(kept[k]).sku, Product(kept[k]).urlKey)[1]

\* a preview job of a catalog of three products under two patterns: two
\* products are left out for a first path that is relative, the third
\* contributes its only path
C20_Witness ==
    /\ PostsOf("preview") # {}
    /\ catalogSize = 3
    /\ Len(confMap) = 2
    /\ confMap[1].key = RELATIVE_PATTERN
    /\ adminCalls[1].paths = <<Substitute(SKU_PATTERN, Product(2).sku, Product(2).urlKey)>>

====
